---- MODULE Spec2Model ----
(***************************************************************************)
(* SharePoint connector (backend/onyx/connectors/sharepoint/connector.py): *)
(* the retrying executor _sleep_and_retry, the document converter, the     *)
(* item traverser _fetch_driveitems, the site enumerator _fetch_sites and  *)
(* the batching generator _fetch_from_sharepoint, driven by a caller that  *)
(* pulls batches.                                                          *)
(***************************************************************************)
EXTENDS Integers, Sequences, FiniteSets, TLC

----------------------------------------------------------------------------
(* Bounds of the model *)

\* largest batch_size a connector is constructed with
MaxBatch == 3
\* largest epoch second a poll window names
MaxTime == 1

----------------------------------------------------------------------------
(* Program constants *)

\* max_retries: int = 3
MaxRetries == 3
\* SHAREPOINT_CONNECTOR_SIZE_THRESHOLD (bytes), scaled down
SHAREPOINT_CONNECTOR_SIZE_THRESHOLD == 10
\* min(30, ...): the backoff cap, in seconds
BackoffCap == 30
\* (2**attempt) * 5: the backoff base, in seconds
BackoffBase == 5

\* Python's None for an optional string
None == "<None>"

----------------------------------------------------------------------------
(* The remote tenant: sites, their drives in listing order, and the files  *)
(* of each drive in server-listing order.  size is the driveitem's size    *)
(* attribute: an integer ("int"), missing ("none") or not convertible by   *)
(* int() ("bad").  parent is parent_reference.path after "root:/", as its  *)
(* "/"-separated segments; mtime is last_modified_datetime, in epoch       *)
(* seconds, a naive datetime.                                              *)

Item(id, kind, size, mtime, parent) ==
    [id |-> id, kind |-> kind, size |-> size, mtime |-> mtime, parent |-> parent]

DrivesOf(url) ==
    CASE url = "A" -> <<"Documents", "Lib">>
      [] url = "B" -> <<"Lib">>
      [] OTHER -> <<>>

ItemsOf(url, drive) ==
    CASE url = "A" /\ drive = "Documents" ->
            << Item("a1", "int", 5, 1, <<"f">>),
               Item("a2", "none", 0, 2, <<"f", "g">>) >>
      [] url = "A" /\ drive = "Lib" ->
            << Item("a3", "int", 11, 0, <<"g">>),
               Item("a4", "int", 3, 2, <<"g">>) >>
      [] url = "B" /\ drive = "Lib" ->
            << Item("b1", "int", 10, 3, <<"g", "f">>),
               Item("b2", "bad", 0, 1, <<"f">>) >>
      [] OTHER -> <<>>

\* what get_all_sites / _get_next may answer: the tenant's sites, in pages
TenantLayouts ==
    { << <<"A", "B">> >>,
      << <<"A">>, <<"B">> >>,
      << <<"B">>, <<>>, <<"A">> >>,
      << <<>>, <<"A">> >>,
      << <<>> >> }

\* the scope targets a connector may be constructed with (site_descriptors)
SiteDescriptor(url, drive_name, folder_path) ==
    [url |-> url, drive_name |-> drive_name, folder_path |-> folder_path]

\* the scopes a connector may be constructed with: what
\* _extract_site_and_drive_info made of the `sites` argument
Scopes ==
    { <<>>,
      << SiteDescriptor("A", None, <<>>) >>,
      << SiteDescriptor("B", None, <<>>), SiteDescriptor("A", None, <<>>) >>,
      << SiteDescriptor("A", "Shared Documents", <<>>), SiteDescriptor("B", "Lib", <<"f">>) >>,
      << SiteDescriptor("B", "Other", <<>>), SiteDescriptor("A", "Documents", <<"f", "g">>) >> }

----------------------------------------------------------------------------
(* Responses and exceptions of the remote client *)

\* e.response of a ClientRequestException: absent (None), or a response
\* object with a status code, a Retry-After header (None when the header is
\* missing) and the truth value Python gives the object in `e.response and`:
\* that is decided by the response's class (requests.Response.__bool__ is
\* self.ok, False for every status >= 400; an object without __bool__ is
\* True).
NoResponse == [present |-> FALSE]
Response(status, truthy, retry_after) ==
    [present |-> TRUE, status |-> status, truthy |-> truthy, retry_after |-> retry_after]

Statuses == {403, 404, 429, 500, 503}
RetryAfterHeaders == {None, "", "7", "40", "Wed, 21 Oct 2015 07:28:00 GMT"}

\* the responses an attempt may fail with; only rate-limit answers carry a
\* Retry-After header
Responses ==
    { NoResponse } \cup
    { Response(s, t, None) : s \in {404, 500}, t \in BOOLEAN } \cup
    { Response(s, t, h) : s \in {429, 503}, t \in BOOLEAN, h \in RetryAfterHeaders }

\* exceptions: cls is the Python class, msg what str(e) holds besides the
\* status line of the response
NoError == [cls |-> "none"]
ClientRequestException(resp) == [cls |-> "ClientRequestException", response |-> resp]
OtherException(cls, msg) == [cls |-> cls, msg |-> msg]

ConnectorMissingCredentialError ==
    OtherException("ConnectorMissingCredentialError", "Sharepoint")
NoSitesError == OtherException("RuntimeError", "No sites found in the tenant")
ValueError == OtherException("ValueError", "invalid literal for int()")

\* what a call made directly with execute_query() may raise
DirectFailures ==
    { ClientRequestException(Response(s, FALSE, None)) : s \in Statuses } \cup
    { ClientRequestException(Response(429, TRUE, "7")) } \cup
    { OtherException("ValueError", "invalid_client"),
      OtherException("ConnectionError", "timed out") }

\* what an attempt inside _sleep_and_retry may raise
AttemptFailures ==
    { ClientRequestException(r) : r \in Responses } \cup
    { OtherException("ConnectionError", "timed out") }

\* str(e) contains `needle`, for the three needles _fetch_driveitems looks for
ErrStrContains(e, needle) ==
    IF e.cls = "ClientRequestException"
    THEN /\ e.response.present
         /\ \/ needle = "403 Client Error" /\ e.response.status = 403
            \/ needle = "404 Client Error" /\ e.response.status = 404
    ELSE needle = "invalid_client" /\ e.msg = "invalid_client"

----------------------------------------------------------------------------
(* _sleep_and_retry: the decisions of one failed attempt *)

\* `e.response and ...`: Python's truth value of the response object
Truthy(resp) == resp.present /\ resp.truthy

\* mutant: the status test dropped from the retry condition
ShouldRetryAnyStatus(resp, attempt) ==
    /\ Truthy(resp)
    /\ attempt < MaxRetries

\* the retry condition of the except clause
ShouldRetry(resp, attempt) ==
    /\ Truthy(resp)
    /\ resp.status \in {429, 503}
    /\ attempt < MaxRetries

\* `if retry_after:` a header string is true unless missing or empty
HeaderGiven(retry_after) == retry_after \notin {None, ""}

\* int(retry_after): defined on decimal literals, ValueError otherwise
IsIntLiteral(s) == s \in {"0", "7", "40"}
IntOf(s) == CASE s = "0" -> 0 [] s = "7" -> 7 [] s = "40" -> 40

Min(a, b) == IF a <= b THEN a ELSE b

\* mutant: the Retry-After header ignored
SleepTimeIgnoresHeader(retry_after, attempt) ==
    Min(BackoffCap, (2 ^ attempt) * BackoffBase)

\* sleep_time, once int() has succeeded or no header was given
SleepTime(retry_after, attempt) ==
    IF HeaderGiven(retry_after)
    THEN IntOf(retry_after)
    ELSE Min(BackoffCap, (2 ^ attempt) * BackoffBase)

----------------------------------------------------------------------------
(* _convert_driveitem_to_document *)

\* mutant: >= in place of > in the size check
SizeExceedsOrEqual(item) ==
    /\ item.kind = "int"
    /\ item.size >= SHAREPOINT_CONNECTOR_SIZE_THRESHOLD

\* the size check: True when the converter returns None before any download
SizeExceeds(item) ==
    /\ item.kind = "int"
    /\ item.size > SHAREPOINT_CONNECTOR_SIZE_THRESHOLD

\* the Document built from a driveitem and its container label
Document(item, drive_name) == [id |-> item.id, drive |-> drive_name]

----------------------------------------------------------------------------
(* _fetch_driveitems: the pure parts *)

\* `if site_descriptor.drive_name:` / `if site_descriptor.folder_path:`
DriveNameGiven(sd) == sd.drive_name \notin {None, ""}
FolderPathGiven(sd) == sd.folder_path # <<>> /\ sd.folder_path # <<"">>

\* mutant: the "Documents" alias of "Shared Documents" dropped
MatchDriveExact(name, sd) == name = sd.drive_name

\* the drive filter
MatchDrive(name, sd) ==
    \/ name = sd.drive_name
    \/ name = "Documents" /\ sd.drive_name = "Shared Documents"

FilterDrives(ds, sd) ==
    IF DriveNameGiven(sd)
    THEN LET Keep(d) == MatchDrive(d, sd) IN SelectSeq(ds, Keep)
    ELSE ds

\* the container label
RelabelDrive(name) == IF name = "Documents" THEN "Shared Documents" ELSE name

\* s is a prefix of t
IsPrefix(s, t) == Len(s) <= Len(t) /\ SubSeq(t, 1, Len(s)) = s

\* what the server lists under the folder reached by get_by_path, segment
\* by segment, with get_files(recursive=True)
ListFiles(url, drive, sd) ==
    IF FolderPathGiven(sd)
    THEN LET Under(it) == IsPrefix(sd.folder_path, it.parent)
         IN  SelectSeq(ItemsOf(url, drive), Under)
    ELSE ItemsOf(url, drive)

\* a path as a string: its segments with "/" between them, each segment
\* name standing for its "/"-free characters
RECURSIVE JoinSlash(_)
JoinSlash(segs) ==
    IF segs = <<>> THEN <<>>
    ELSE IF Len(segs) = 1 THEN << segs[1] >>
    ELSE << segs[1], "/" >> \o JoinSlash(Tail(segs))

\* path_part == folder_path or path_part.startswith(folder_path + "/"),
\* for one segment path_part of parent_reference.path.split("root:/")[1]
\* .split("/"), folder_path being the string of the target
PartMatches(path_part, folder_path) ==
    \/ << path_part >> = JoinSlash(folder_path)
    \/ IsPrefix(JoinSlash(folder_path) \o << "/" >>, << path_part >>)

\* the folder filter's test of one item
InFolder(item, sd) ==
    \E i \in 1..Len(item.parent) : PartMatches(item.parent[i], sd.folder_path)

\* datetime.fromtimestamp(x, timezone.utc), and
\* last_modified_datetime.replace(tzinfo=timezone.utc): aware datetimes
FromTimestamp(x) == [epoch |-> x, tz |-> "utc"]
ReplaceTz(mtime) == [epoch |-> mtime, tz |-> "utc"]
DatetimeLeq(a, b) == a.epoch <= b.epoch

NoWindow == [set |-> FALSE]
Window(s, e) == [set |-> TRUE, start |-> FromTimestamp(s), end |-> FromTimestamp(e)]

\* mutant: the window open at its start
InWindowOpenStart(item, w) ==
    /\ ~DatetimeLeq(ReplaceTz(item.mtime), w.start)
    /\ DatetimeLeq(ReplaceTz(item.mtime), w.end)

\* the time filter's test of one item
InWindow(item, w) ==
    /\ DatetimeLeq(w.start, ReplaceTz(item.mtime))
    /\ DatetimeLeq(ReplaceTz(item.mtime), w.end)

\* the (item, drive_name) pairs one drive adds to final_driveitems
DriveResult(listed, drive, sd, w) ==
    LET KeepF(it) == InFolder(it, sd)
        KeepW(it) == InWindow(it, w)
        afterFolder == IF FolderPathGiven(sd) THEN SelectSeq(listed, KeepF) ELSE listed
        afterWindow == IF w.set THEN SelectSeq(afterFolder, KeepW) ELSE afterFolder
    IN  [i \in 1..Len(afterWindow) |->
            [item |-> afterWindow[i], drive_name |-> RelabelDrive(drive)]]

\* mutant: the 404 test dropped
IsFatalSiteErrorNo404(e) ==
    \/ ErrStrContains(e, "403 Client Error")
    \/ ErrStrContains(e, "invalid_client")

\* the except clause of the site: these errors are raised again
IsFatalSiteError(e) ==
    \/ ErrStrContains(e, "403 Client Error")
    \/ ErrStrContains(e, "404 Client Error")
    \/ ErrStrContains(e, "invalid_client")

----------------------------------------------------------------------------
(* _fetch_from_sharepoint: the batching *)

\* mutant: the batch test one document early
BatchFullEarly(batch, n) == Len(batch) >= n - 1

\* mutant: > in place of >= in the batch test
BatchFullStrict(batch, size) == Len(batch) > size

\* len(doc_batch) >= self.batch_size
BatchFull(batch, size) == Len(batch) >= size

\* mutant: the buffer not emptied after a yield
ResetBatchKeeps(batch) == batch

\* doc_batch = [] after a yield
ResetBatch(batch) == <<>>

\* mutant: the document put in front of the buffer
AppendDocFront(batch, doc) == << doc >> \o batch

\* doc_batch.append(doc) when doc is not None
AppendDoc(batch, doc) == Append(batch, doc)

----------------------------------------------------------------------------
(* The scope resolver: _extract_site_and_drive_info.  A string is a         *)
(* sequence of tokens: "/" and " " stand for themselves, "%20" is the       *)
(* escape of a space, every other token is a run of characters that holds   *)
(* none of them.                                                            *)

MaxSegs == 5
MaxUrls == 2

\* the segments the `sites` argument is built from
Segs == { <<>>, << "sites" >>, << "A" >>, << "b", "%20", "c" >> }

\* leading and trailing white space of an argument
Pads == { <<>>, << " " >> }

\* "/".join(parts), parts being strings
RECURSIVE Join(_)
Join(parts) ==
    IF parts = <<>> THEN <<>>
    ELSE IF Len(parts) = 1 THEN parts[1]
    ELSE parts[1] \o << "/" >> \o Join(Tail(parts))

\* the strings of 1..n segments
RECURSIVE SegLists(_)
SegLists(n) ==
    IF n = 0 THEN { <<>> }
    ELSE LET shorter == SegLists(n - 1)
         IN  shorter \cup { Append(l, g) : l \in { x \in shorter : Len(x) = n - 1 }, g \in Segs }

\* the values of one element of `sites`
Urls ==
    { a \o Join(l) \o b : a \in Pads, b \in Pads, l \in SegLists(MaxSegs) \ { <<>> } }

\* elements for the arguments of several strings
SampleUrls ==
    { << "A", "/", "A" >>,
      << " ", "A", "/", "sites", "/", "A", "/", "b", "%20", "c", "/", "A" >>,
      << "A", "/", "sites", " " >>,
      << "sites", "/", "A", "/", "sites", "/" >> }

RECURSIVE ListsOver(_, _)
ListsOver(S, n) ==
    IF n = 0 THEN { <<>> }
    ELSE LET shorter == ListsOver(S, n - 1)
         IN  shorter \cup { Append(l, u) : l \in { x \in shorter : Len(x) = n - 1 }, u \in S }

\* the values of the `sites` argument
UrlLists == { << u >> : u \in Urls } \cup ListsOver(SampleUrls, MaxUrls)

\* str | None: a string that is given, or None
Given(s) == << s >>
Absent == <<>>

\* str.strip()
RECURSIVE LStrip(_)
LStrip(s) == IF s # <<>> /\ Head(s) = " " THEN LStrip(Tail(s)) ELSE s

RECURSIVE RStrip(_)
RStrip(s) ==
    IF s # <<>> /\ s[Len(s)] = " " THEN RStrip(SubSeq(s, 1, Len(s) - 1)) ELSE s

Strip(s) == RStrip(LStrip(s))

\* str.split("/")
RECURSIVE Split(_)
Split(s) ==
    IF \A i \in 1..Len(s) : s[i] # "/" THEN << s >>
    ELSE LET i == CHOOSE i \in 1..Len(s) :
                     s[i] = "/" /\ \A j \in 1..(i - 1) : s[j] # "/"
         IN  << SubSeq(s, 1, i - 1) >> \o Split(SubSeq(s, i + 1, Len(s)))

\* `"sites" in parts`
SitesIn(parts) == \E i \in 1..Len(parts) : parts[i] = << "sites" >>

\* mutant: the last occurrence
IndexLast(parts, x) ==
    CHOOSE i \in 1..Len(parts) :
        parts[i] = x /\ \A j \in (i + 1)..Len(parts) : parts[j] # x

\* parts.index(x), counted from 1
Index(parts, x) ==
    CHOOSE i \in 1..Len(parts) :
        parts[i] = x /\ \A j \in 1..(i - 1) : parts[j] # x

\* parts[:n]
SliceTo(parts, n) == SubSeq(parts, 1, Min(n, Len(parts)))

\* parts[n:]
SliceFrom(parts, n) == SubSeq(parts, n + 1, Len(parts))

\* urllib.parse.unquote: the escapes decoded
Unquote(s) == [i \in 1..Len(s) |-> IF s[i] = "%20" THEN " " ELSE s[i]]

\* the body of the loop for a url that holds a "sites" part
ExtractOne(url) ==
    LET parts == Split(Strip(url))
        sites_index == Index(parts, << "sites" >>)
        site_url == Join(SliceTo(parts, sites_index + 1))
        remaining_parts == SliceFrom(parts, sites_index + 1)
        later == SliceFrom(remaining_parts, 1)
        drive_name == IF remaining_parts # <<>>
                      THEN Given(Unquote(remaining_parts[1]))
                      ELSE Absent
        folder_path == IF remaining_parts # <<>> /\ Len(remaining_parts) > 1
                       THEN Given(Join([i \in 1..Len(later) |-> Unquote(later[i])]))
                       ELSE Absent
    IN  SiteDescriptor(site_url, drive_name, folder_path)

----------------------------------------------------------------------------
(* State *)

VARIABLES
    graph_client,      \* TRUE once load_credentials has set self._graph_client
    site_descriptors,  \* self.site_descriptors
    batch_size,        \* self.batch_size
    pc,                \* where the run (the generator) stands
    window,            \* start / end of the run
    targets,           \* site_descriptors of the run (local of the generator)
    ti,                \* index of the target in progress
    sites,             \* the paginated site collection being walked
    drives,            \* surviving drives of the target in progress
    dri,               \* index of the drive in progress
    driveitems,        \* final_driveitems / driveitems of the target in progress
    di,                \* index of the driveitem in progress
    doc_batch,         \* the running buffer
    attempt,           \* loop variable of _sleep_and_retry
    sleep_time,        \* sleep_time of the sleep in progress
    lastfail,          \* the exception the executor caught last, in this call
    yielded,           \* the batches delivered to the caller, in order
    converted,         \* the documents the converter returned, in order
    error,             \* the exception that left the run
    call,              \* the last remote call issued, and how it ended
    site_urls,         \* the argument of _extract_site_and_drive_info
    url_i,             \* index of the url its loop stands at
    site_data_list     \* site_data_list of _extract_site_and_drive_info

vars == << graph_client, site_descriptors, batch_size, pc, window, targets, ti,
           sites, drives, dri, driveitems, di, doc_batch, attempt, sleep_time,
           lastfail, yielded, converted, error, call,
           site_urls, url_i, site_data_list >>

resolver == << site_urls, url_i, site_data_list >>

config == << graph_client, site_descriptors, batch_size >>
executor == << attempt, sleep_time, lastfail >>
traversal == << targets, ti, sites, drives, dri, driveitems, di >>
output == << yielded, converted >>

NoSites == [data |-> <<>>, current_page |-> <<>>, rest |-> <<>>]
NoCall == [op |-> "none", about |-> "", attempt |-> 0, tick |-> 0, failure |-> NoError]

\* the record of one more remote call: tick is the parity of the number of
\* remote calls issued so far
Called(op, about, att, failure) ==
    [op |-> op, about |-> about, attempt |-> att, tick |-> 1 - call.tick,
     failure |-> failure]

Init ==
    /\ graph_client = FALSE
    /\ site_descriptors \in Scopes
    /\ batch_size \in 1..MaxBatch
    /\ pc = "idle"
    /\ window = NoWindow
    /\ targets = <<>>
    /\ ti = 1
    /\ sites = NoSites
    /\ drives = <<>>
    /\ dri = 1
    /\ driveitems = <<>>
    /\ di = 1
    /\ doc_batch = <<>>
    /\ attempt = 0
    /\ sleep_time = 0
    /\ lastfail = NoError
    /\ yielded = <<>>
    /\ converted = <<>>
    /\ error = NoError
    /\ call = NoCall
    /\ site_urls = <<>>
    /\ url_i = 1
    /\ site_data_list = <<>>

\* mutant: the exception is swallowed and the generator returns
PropagateSwallowed(e) ==
    /\ pc' = "done"
    /\ error' = e

\* an exception leaves the generator: the run is over
Propagate(e) ==
    /\ pc' = "raised"
    /\ error' = e

----------------------------------------------------------------------------
(* The caller *)

\* load_credentials
LoadCredentials ==
    /\ graph_client' = TRUE
    /\ UNCHANGED << site_descriptors, batch_size, pc, window, traversal, doc_batch,
                    executor, output, error, call >>
    /\ UNCHANGED resolver

\* load_from_state: the generator is created, nothing runs
LoadFromState ==
    /\ pc = "idle"
    /\ pc' = "created"
    /\ window' = NoWindow
    /\ UNCHANGED << config, traversal, doc_batch, executor, output, error, call >>
    /\ UNCHANGED resolver

\* poll_source(start, end)
PollSource ==
    /\ pc = "idle"
    /\ \E s \in 0..MaxTime, e \in 0..MaxTime : window' = Window(s, e)
    /\ pc' = "created"
    /\ UNCHANGED << config, traversal, doc_batch, executor, output, error, call >>
    /\ UNCHANGED resolver

\* where next() resumes a suspended generator
ResumeAt(p) ==
    CASE p = "created" -> "start"
      [] p = "yielded" -> "items"
      [] p = "yielded_final" -> "done"

\* next(batches): the caller pulls; after `yield doc_batch` inside the loop
\* the generator goes on with doc_batch = []
Pull ==
    /\ pc \in {"created", "yielded", "yielded_final"}
    /\ pc' = ResumeAt(pc)
    /\ doc_batch' = IF pc = "yielded" THEN ResetBatch(doc_batch) ELSE doc_batch
    /\ UNCHANGED << config, window, traversal, executor, output, error, call >>
    /\ UNCHANGED resolver

----------------------------------------------------------------------------
(* _fetch_from_sharepoint, first line: the targets of the run *)

\* self.site_descriptors is not empty: no enumeration
StartScoped ==
    /\ pc = "start"
    /\ site_descriptors # <<>>
    /\ targets' = site_descriptors
    /\ ti' = 1
    /\ pc' = "target"
    /\ UNCHANGED << config, window, sites, drives, dri, driveitems, di, doc_batch,
                    executor, output, error, call >>
    /\ UNCHANGED resolver

\* _fetch_sites without a client: the graph_client property raises
FetchSitesNoClient ==
    /\ pc = "start"
    /\ site_descriptors = <<>>
    /\ ~graph_client
    /\ Propagate(ConnectorMissingCredentialError)
    /\ UNCHANGED << config, window, traversal, doc_batch, executor, output, call >>
    /\ UNCHANGED resolver

\* the collection after its first page was loaded
FirstPage(layout) ==
    [data |-> layout[1], current_page |-> layout[1], rest |-> Tail(layout)]

\* the collection after _get_next loaded one more page
NextPage(c) ==
    [data |-> c.data \o c.rest[1], current_page |-> c.rest[1], rest |-> Tail(c.rest)]

\* mutant: the collection always true
SitesTruthyAlways(c) == TRUE

\* `if not sites` / `while sites`: a collection is true when it holds data
SitesTruthy(c) == c.data # <<>>

\* _fetch_sites: get_all_sites().execute_query() and the zero-sites check
GetAllSites ==
    /\ pc = "start"
    /\ site_descriptors = <<>>
    /\ graph_client
    /\ \/ \E e \in DirectFailures :
             /\ call' = Called("get_all_sites", "", 0, e)
             /\ Propagate(e)
             /\ UNCHANGED sites
       \/ \E layout \in TenantLayouts :
             /\ call' = Called("get_all_sites", "", 0, NoError)
             /\ sites' = FirstPage(layout)
             /\ IF SitesTruthy(FirstPage(layout))
                THEN /\ pc' = "sites"
                     /\ UNCHANGED error
                ELSE Propagate(NoSitesError)
    /\ UNCHANGED << config, window, targets, ti, drives, dri, driveitems, di,
                    doc_batch, executor, output >>
    /\ UNCHANGED resolver

\* the descriptors the list comprehension of _fetch_sites builds from a page
PageDescriptors(page) ==
    [i \in 1..Len(page) |-> SiteDescriptor(page[i], None, <<>>)]

\* mutant: has_next never true, the enumeration stops after one page
HasNextNever(c) == FALSE

\* sites.has_next
HasNext(c) == c.rest # <<>>

\* _handle_paginated_sites, one turn of its loop, consumed by the list
\* comprehension of _fetch_sites
SitesPage ==
    /\ pc = "sites"
    /\ SitesTruthy(sites)
    /\ targets' = targets \o PageDescriptors(sites.current_page)
    /\ IF ~HasNext(sites)
       THEN /\ pc' = "target"
            /\ UNCHANGED << sites, error, call >>
       ELSE \/ \E e \in DirectFailures :
                  /\ call' = Called("_get_next", "", 0, e)
                  /\ Propagate(e)
                  /\ UNCHANGED sites
            \/ /\ call' = Called("_get_next", "", 0, NoError)
               /\ sites' = NextPage(sites)
               /\ UNCHANGED << pc, error >>
    /\ UNCHANGED << config, window, ti, drives, dri, driveitems, di, doc_batch,
                    executor, output >>
    /\ UNCHANGED resolver

----------------------------------------------------------------------------
(* _fetch_driveitems *)

\* the except clause of the site: raise again, or log and return what was
\* collected (nothing)
SiteFailure(e) ==
    IF IsFatalSiteError(e)
    THEN /\ Propagate(e)
         /\ UNCHANGED << drives, dri, driveitems, di >>
    ELSE /\ pc' = "items"
         /\ driveitems' = <<>>
         /\ di' = 1
         /\ UNCHANGED << drives, dri, error >>

\* self.graph_client raises inside the try of _fetch_driveitems
FetchDriveitemsNoClient ==
    /\ pc = "target"
    /\ ti <= Len(targets)
    /\ ~graph_client
    /\ SiteFailure(ConnectorMissingCredentialError)
    /\ UNCHANGED << config, window, targets, ti, sites, doc_batch, executor,
                    output, call >>
    /\ UNCHANGED resolver

\* site.drives.get().execute_query() and the drive filter
ListDrives ==
    /\ pc = "target"
    /\ ti <= Len(targets)
    /\ graph_client
    /\ LET sd == targets[ti] IN
       \/ \E e \in DirectFailures :
             /\ call' = Called("drives", sd.url, 0, e)
             /\ SiteFailure(e)
       \/ /\ call' = Called("drives", sd.url, 0, NoError)
          /\ LET ds == FilterDrives(DrivesOf(sd.url), sd) IN
             IF DriveNameGiven(sd) /\ ds = <<>>
             THEN /\ pc' = "items"
                  /\ driveitems' = <<>>
                  /\ di' = 1
                  /\ UNCHANGED << drives, dri, error >>
             ELSE /\ pc' = "drive"
                  /\ drives' = ds
                  /\ dri' = 1
                  /\ driveitems' = <<>>
                  /\ UNCHANGED << di, error >>
    /\ UNCHANGED << config, window, targets, ti, sites, doc_batch, executor, output >>
    /\ UNCHANGED resolver

\* mutant: the per-drive except clause raises the error again
DriveFailureRaises(e) ==
    /\ Propagate(e)
    /\ UNCHANGED << driveitems, dri >>

\* the per-drive except clause: log, and go on with the next drive
DriveFailure(e) ==
    /\ dri' = dri + 1
    /\ UNCHANGED << driveitems, pc, error >>

\* one drive: root_folder.get_files(recursive=True).execute_query(), the
\* filters, and the per-drive except clause
ListItems ==
    /\ pc = "drive"
    /\ dri <= Len(drives)
    /\ LET sd == targets[ti]
           drive == drives[dri]
       IN  \/ \E e \in DirectFailures :
                 /\ call' = Called("get_files", drive, 0, e)
                 /\ DriveFailure(e)
           \/ /\ call' = Called("get_files", drive, 0, NoError)
              /\ driveitems' = driveitems \o
                    DriveResult(ListFiles(sd.url, drive, sd), drive, sd, window)
              /\ dri' = dri + 1
              /\ UNCHANGED << pc, error >>
    /\ UNCHANGED << config, window, targets, ti, sites, drives, di, doc_batch,
                    executor, output >>
    /\ UNCHANGED resolver

\* return final_driveitems
DrivesDone ==
    /\ pc = "drive"
    /\ dri > Len(drives)
    /\ pc' = "items"
    /\ drives' = <<>>
    /\ dri' = 1
    /\ di' = 1
    /\ UNCHANGED << config, window, targets, ti, sites, driveitems, doc_batch,
                    executor, output, error, call >>
    /\ UNCHANGED resolver

----------------------------------------------------------------------------
(* _fetch_from_sharepoint: the loops, the converter and the executor *)

\* the end of one turn of the item loop: `if len(doc_batch) >= batch_size:
\* yield doc_batch` suspends the generator, otherwise the loop goes on
\* mutant: a full batch is handed over without suspending the generator
AfterItemEager(batch) ==
    /\ doc_batch' = batch
    /\ di' = di + 1
    /\ pc' = "items"
    /\ yielded' = IF BatchFull(batch, batch_size) THEN Append(yielded, batch) ELSE yielded

AfterItem(batch) ==
    /\ doc_batch' = batch
    /\ di' = di + 1
    /\ IF BatchFull(batch, batch_size)
       THEN /\ yielded' = Append(yielded, batch)
            /\ pc' = "yielded"
       ELSE /\ pc' = "items"
            /\ UNCHANGED yielded

\* the item loop of a target is over: the next target
NextTarget ==
    /\ pc = "items"
    /\ di > Len(driveitems)
    /\ ti' = ti + 1
    /\ driveitems' = <<>>
    /\ di' = 1
    /\ pc' = "target"
    /\ UNCHANGED << config, window, targets, sites, drives, dri, doc_batch,
                    executor, output, error, call >>
    /\ UNCHANGED resolver

\* mutant: the size check ends the run instead of skipping the item
ConvertSkipSizeRaises ==
    /\ pc = "items"
    /\ di <= Len(driveitems)
    /\ SizeExceeds(driveitems[di].item)
    /\ di' = di + 1
    /\ Propagate(ValueError)
    /\ UNCHANGED << config, window, targets, ti, sites, drives, dri, driveitems,
                    doc_batch, executor, output, call >>
    /\ UNCHANGED resolver

\* the converter returns None on the size check: no download
ConvertSkipSize ==
    /\ pc = "items"
    /\ di <= Len(driveitems)
    /\ SizeExceeds(driveitems[di].item)
    /\ AfterItem(doc_batch)
    /\ UNCHANGED << config, window, targets, ti, sites, drives, dri, driveitems,
                    executor, converted, error, call >>
    /\ UNCHANGED resolver

\* the converter goes on to _sleep_and_retry(driveitem.get_content(), ...)
ConvertFetch ==
    /\ pc = "items"
    /\ di <= Len(driveitems)
    /\ ~SizeExceeds(driveitems[di].item)
    /\ pc' = "fetch"
    /\ attempt' = 0
    /\ sleep_time' = 0
    /\ lastfail' = NoError
    /\ UNCHANGED << config, window, traversal, doc_batch, output, error, call >>
    /\ UNCHANGED resolver

\* the contents get_content may answer: a payload, or nothing
Contents == {"bytes", None}

\* one attempt of _sleep_and_retry: query_obj.execute_query() returns, and
\* the converter finishes the item
AttemptReturns ==
    /\ pc = "fetch"
    /\ attempt <= MaxRetries
    /\ LET pair == driveitems[di] IN
       /\ call' = Called("get_content", pair.item.id, attempt, NoError)
       /\ \E content \in Contents :
             IF content = None
             THEN /\ AfterItem(doc_batch)
                  /\ UNCHANGED converted
             ELSE /\ AfterItem(AppendDoc(doc_batch, Document(pair.item, pair.drive_name)))
                  /\ converted' = Append(converted, Document(pair.item, pair.drive_name))
    /\ attempt' = 0
    /\ sleep_time' = 0
    /\ lastfail' = NoError
    /\ UNCHANGED << config, window, targets, ti, sites, drives, dri, driveitems, error >>
    /\ UNCHANGED resolver

\* one attempt of _sleep_and_retry: query_obj.execute_query() raises
AttemptRaises ==
    /\ pc = "fetch"
    /\ attempt <= MaxRetries
    /\ \E e \in AttemptFailures :
          /\ call' = Called("get_content", driveitems[di].item.id, attempt, e)
          /\ IF e.cls = "ClientRequestException" /\ ShouldRetry(e.response, attempt)
             THEN IF HeaderGiven(e.response.retry_after)
                     /\ ~IsIntLiteral(e.response.retry_after)
                  THEN /\ Propagate(ValueError)
                       /\ UNCHANGED << sleep_time, lastfail >>
                  ELSE /\ sleep_time' = SleepTime(e.response.retry_after, attempt)
                       /\ lastfail' = e
                       /\ pc' = "sleep"
                       /\ UNCHANGED error
             ELSE /\ Propagate(e)
                  /\ UNCHANGED << sleep_time, lastfail >>
    /\ UNCHANGED << config, window, traversal, doc_batch, attempt, output >>
    /\ UNCHANGED resolver

\* time.sleep(sleep_time) is over: the next turn of the retry loop
Sleep ==
    /\ pc = "sleep"
    /\ attempt' = attempt + 1
    /\ pc' = "fetch"
    /\ UNCHANGED << config, window, traversal, doc_batch, sleep_time, lastfail,
                    output, error, call >>
    /\ UNCHANGED resolver

\* the target loop is over: the last `yield doc_batch`
FinalYield ==
    /\ pc = "target"
    /\ ti > Len(targets)
    /\ yielded' = Append(yielded, doc_batch)
    /\ pc' = "yielded_final"
    /\ UNCHANGED << config, window, traversal, doc_batch, executor, converted,
                    error, call >>
    /\ UNCHANGED resolver

----------------------------------------------------------------------------

Next ==
    \/ LoadCredentials
    \/ LoadFromState
    \/ PollSource
    \/ Pull
    \/ StartScoped
    \/ FetchSitesNoClient
    \/ GetAllSites
    \/ SitesPage
    \/ FetchDriveitemsNoClient
    \/ ListDrives
    \/ ListItems
    \/ DrivesDone
    \/ NextTarget
    \/ ConvertSkipSize
    \/ ConvertFetch
    \/ AttemptReturns
    \/ AttemptRaises
    \/ Sleep
    \/ FinalYield

Spec == Init /\ [][Next]_vars

----------------------------------------------------------------------------
(* The scope resolver as a machine of its own: one step per url *)

run == << graph_client, site_descriptors, batch_size, pc, window, targets, ti,
          sites, drives, dri, driveitems, di, doc_batch, attempt, sleep_time,
          lastfail, yielded, converted, error, call >>

InitResolver ==
    /\ graph_client = FALSE
    /\ site_descriptors = <<>>
    /\ batch_size = 1
    /\ pc = "idle"
    /\ window = NoWindow
    /\ targets = <<>>
    /\ ti = 1
    /\ sites = NoSites
    /\ drives = <<>>
    /\ dri = 1
    /\ driveitems = <<>>
    /\ di = 1
    /\ doc_batch = <<>>
    /\ attempt = 0
    /\ sleep_time = 0
    /\ lastfail = NoError
    /\ yielded = <<>>
    /\ converted = <<>>
    /\ error = NoError
    /\ call = NoCall
    /\ site_urls \in UrlLists
    /\ url_i = 1
    /\ site_data_list = <<>>

\* one turn of the loop: the url holds a "sites" part
ExtractTarget ==
    /\ url_i <= Len(site_urls)
    /\ SitesIn(Split(Strip(site_urls[url_i])))
    /\ site_data_list' = Append(site_data_list, ExtractOne(site_urls[url_i]))
    /\ url_i' = url_i + 1
    /\ UNCHANGED << run, site_urls >>

\* one turn of the loop: no "sites" part, nothing appended
ExtractDrop ==
    /\ url_i <= Len(site_urls)
    /\ ~SitesIn(Split(Strip(site_urls[url_i])))
    /\ url_i' = url_i + 1
    /\ UNCHANGED << run, site_urls, site_data_list >>

NextResolver ==
    \/ ExtractTarget
    \/ ExtractDrop

SpecResolver == InitResolver /\ [][NextResolver]_vars

----------------------------------------------------------------------------
(* Vocabulary of the claims *)

RECURSIVE Flatten(_)
Flatten(batches) ==
    IF batches = <<>> THEN <<>> ELSE Head(batches) \o Flatten(Tail(batches))

\* the exception is a 429 or a 503 answer
IsRateLimit(e) ==
    /\ e.cls = "ClientRequestException"
    /\ e.response.present
    /\ e.response.status \in {429, 503}

\* the run has completed: the final batch was yielded
Completed == pc \in {"yielded_final", "done"}

\* the generator is inside a step of its own (not suspended, not over)
Running == pc \in {"start", "sites", "target", "drive", "items", "fetch", "sleep"}

RunStep ==
    \/ StartScoped \/ FetchSitesNoClient \/ GetAllSites \/ SitesPage
    \/ FetchDriveitemsNoClient \/ ListDrives \/ ListItems \/ DrivesDone
    \/ NextTarget \/ ConvertSkipSize \/ ConvertFetch
    \/ AttemptReturns \/ AttemptRaises \/ Sleep \/ FinalYield

AllItems ==
    UNION { { ItemsOf(u, d)[i] : i \in 1..Len(ItemsOf(u, d)) } :
            u \in {"A", "B"}, d \in {"Documents", "Lib"} }

ItemById(id) == CHOOSE it \in AllItems : it.id = id

----------------------------------------------------------------------------
(* C1: an operation that answers 429 or 503 on every attempt is attempted   *)
(* exactly 4 times (attempt indexes 0..3) and then its failure propagates.  *)
(* Stated on the state after the failure left the executor: a rate-limit    *)
(* answer ends the run only as the answer to the attempt of index 3.        *)
C1_RateLimitRetriedFourTimes ==
    (call.op = "get_content" /\ IsRateLimit(call.failure) /\ pc = "raised")
        => (call.attempt = MaxRetries /\ error = call.failure)

----------------------------------------------------------------------------
(* C2: site listing, next site page, drive listing and item listing run     *)
(* through the retrying executor: a 429 or 503 answer ends such a call      *)
(* (as a failure or a skip) only after 3 retries, as the 4th attempt.       *)
C2_TraversalCallsRetried ==
    (call.op \in {"get_all_sites", "_get_next", "drives", "get_files"}
        /\ IsRateLimit(call.failure))
        => call.attempt = MaxRetries

----------------------------------------------------------------------------
(* C3: a run started without a client ends with the missing-credential      *)
(* error, whether the scope is empty or not: while no client was supplied,  *)
(* the run does not get past its first step in any other way.               *)
C3_MissingCredentialIsFatal ==
    (~graph_client /\ pc \notin {"idle", "created", "start"})
        => (pc = "raised" /\ error = ConnectorMissingCredentialError)

----------------------------------------------------------------------------
(* C4: in a completed run the yielded batches, concatenated in yield order, *)
(* are exactly the converted documents in traversal order.                  *)
C4_BatchesPartitionConverted ==
    Completed => Flatten(yielded) = converted

C4_Witness ==
    /\ pc = "done"
    /\ Len(yielded) = 3
    /\ Len(converted) = 4
    /\ batch_size = 2

----------------------------------------------------------------------------
(* C5: every yielded batch and the running buffer hold at most batch_size   *)
(* documents; a completed run of n converted documents has yielded          *)
(* n \div b batches of b documents and then one batch of n % b documents.   *)
C5_BatchCountAndSizes ==
    LET b == batch_size
        n == Len(converted)
    IN  /\ Len(doc_batch) <= b
        /\ \A i \in 1..Len(yielded) : Len(yielded[i]) <= b
        /\ Completed =>
              /\ Len(yielded) = (n \div b) + 1
              /\ \A i \in 1..(n \div b) : Len(yielded[i]) = b
              /\ Len(yielded[Len(yielded)]) = n % b

C5_Witness ==
    /\ pc = "done"
    /\ batch_size = 2
    /\ Len(converted) = 3
    /\ Len(yielded) = 2

----------------------------------------------------------------------------
(* C6: a sleep before the retry of attempt a (0..2) lasts the Retry-After   *)
(* value when the failed response carries one, and 5, 10, 20 seconds for    *)
(* a = 0, 1, 2 otherwise, for 429 and 503 alike.                            *)
C6_SleepDuration ==
    pc = "sleep" =>
        LET r == lastfail.response.retry_after
        IN  /\ attempt \in 0..2
            /\ sleep_time = CASE r = "7" -> 7
                              [] r = "40" -> 40
                              [] OTHER -> <<5, 10, 20>>[attempt + 1]

C6_Witness ==
    /\ pc = "sleep"
    /\ lastfail.response.status = 503
    /\ lastfail.response.retry_after = None
    /\ attempt = 1
    /\ sleep_time = 10

----------------------------------------------------------------------------
(* C7: a failure other than a 429 or 503 answer leaves the executor at      *)
(* once: the executor sleeps, and attempts again, only after a 429 or 503   *)
(* answer, and any other failure is the error of the run.                   *)
C7_OtherFailuresPropagate ==
    /\ (pc = "sleep" \/ (pc = "fetch" /\ attempt > 0)) => IsRateLimit(lastfail)
    /\ (call.op = "get_content" /\ call.failure # NoError /\ ~IsRateLimit(call.failure))
          => (pc = "raised" /\ error = call.failure)

C7_Witness ==
    /\ pc = "raised"
    /\ call.op = "get_content"
    /\ call.attempt = 2
    /\ call.failure = ClientRequestException(Response(500, TRUE, None))

----------------------------------------------------------------------------
(* C8: a drive-listing failure that is a 403, a 404 or invalid_client is    *)
(* the error of the run; after any other one the target has no items, no    *)
(* error is raised and the run goes on with the next target.                *)
C8_SiteFailureClassified ==
    (call.op = "drives" /\ call.failure # NoError) =>
        LET e == call.failure
            fatal == \/ e.cls = "ClientRequestException" /\ e.response.status \in {403, 404}
                     \/ e.cls # "ClientRequestException" /\ e.msg = "invalid_client"
        IN  IF fatal
            THEN pc = "raised" /\ error = e
            ELSE /\ error = NoError
                 /\ driveitems = <<>>
                 /\ \/ pc = "items" /\ targets[ti].url = call.about
                    \/ pc = "target" /\ ti > 1 /\ targets[ti - 1].url = call.about
                    \/ (Completed /\ ti = Len(targets) + 1)

C8_Witness ==
    /\ call.op = "drives"
    /\ call.failure = ClientRequestException(Response(500, FALSE, None))
    /\ pc = "target"
    /\ ti = 2
    /\ Len(targets) = 2

----------------------------------------------------------------------------
(* C9: a run ends as completed (final batch yielded, no error) or as failed *)
(* (an error, after zero or more batches), never stuck in between; once it  *)
(* has ended, no batch is yielded, no remote call is issued, and the        *)
(* batches already yielded stay as they are.                                *)
C9_RunEndsOneWay ==
    /\ [](pc = "raised" <=> error # NoError)
    /\ [](pc = "done" => (Len(yielded) >= 1 /\ ti = Len(targets) + 1))
    /\ [](Running => ENABLED RunStep)
    /\ [][(pc \in {"raised", "done"}) =>
            (pc' = pc /\ yielded' = yielded /\ call' = call /\ error' = error)]_vars

C9_Witness ==
    /\ pc = "raised"
    /\ Len(yielded) = 2
    /\ call.op = "get_content"

----------------------------------------------------------------------------
(* C10: an item of known size above the threshold is never fetched and      *)
(* gives no document; any other item handed to the converter enters the     *)
(* retrying executor for its content fetch.                                 *)
C10_Oversize(it) == it.kind = "int" /\ it.size > 10

C10_SizeGate ==
    /\ [](call.op = "get_content" => ~C10_Oversize(ItemById(call.about)))
    /\ [](\A i \in 1..Len(converted) : ~C10_Oversize(ItemById(converted[i].id)))
    /\ [][(pc = "items" /\ di <= Len(driveitems) /\ (pc' # pc \/ di' # di)) =>
            IF C10_Oversize(driveitems[di].item)
            THEN /\ pc' = "items"
                 /\ di' = di + 1
                 /\ call' = call
                 /\ converted' = converted
            ELSE /\ pc' = "fetch"
                 /\ attempt' = 0
                 /\ di' = di]_vars

C10_Witness ==
    /\ pc = "done"
    /\ Len(targets) = 1
    /\ targets[1].url = "A"
    /\ call.op = "get_content"
    /\ call.about = "a2"
    /\ \E i \in 1..Len(converted) : converted[i].id = "a2"

----------------------------------------------------------------------------
(* Vocabulary of the traversal claims *)

\* a successful item listing is the step being taken
ListingStep ==
    /\ pc = "drive"
    /\ call' # call
    /\ call'.op = "get_files"
    /\ call'.failure = NoError

\* the items the step adds to final_driveitems, and their labels
AddedPairs == SubSeq(driveitems', Len(driveitems) + 1, Len(driveitems'))

\* the drive an item of the tenant lives in
DriveOfItem(id) ==
    CHOOSE d \in {"Documents", "Lib"} :
        \E u \in {"A", "B"} : \E i \in 1..Len(ItemsOf(u, d)) : ItemsOf(u, d)[i].id = id

----------------------------------------------------------------------------
(* C11: with a window [s, e], a drive adds exactly its listed items (after  *)
(* the folder filter) whose last-modified time t has s <= t <= e, in        *)
(* listing order; a full load adds them all.                                *)
C11_TimeWindowInclusive ==
    [][ListingStep =>
          LET sd == targets[ti]
              listed == ListFiles(sd.url, drives[dri], sd)
              KeepF(it) == InFolder(it, sd)
              afterFolder == IF FolderPathGiven(sd) THEN SelectSeq(listed, KeepF)
                             ELSE listed
              KeepT(it) == \/ ~window.set
                           \/ /\ window.start.epoch <= it.mtime
                              /\ it.mtime <= window.end.epoch
              expected == SelectSeq(afterFolder, KeepT)
          IN  /\ Len(AddedPairs) = Len(expected)
              /\ \A i \in 1..Len(expected) : AddedPairs[i].item = expected[i]
              /\ SubSeq(driveitems', 1, Len(driveitems)) = driveitems]_vars

C11_Witness ==
    /\ window = Window(1, 1)
    /\ pc = "drive"
    /\ dri = 2
    /\ targets[ti] = SiteDescriptor("A", None, <<>>)
    /\ call.op = "get_files"
    /\ call.failure = NoError
    /\ Len(driveitems) = 1
    /\ driveitems[1].item.id = "a1"

----------------------------------------------------------------------------
(* C12: for a target naming a drive D the drives processed are those named  *)
(* D, and "Documents" when D is "Shared Documents"; when none is left the   *)
(* target gives no item and no error.  Every item of a drive "Documents"    *)
(* is labelled "Shared Documents", every other item with its drive's name.  *)
C12_DriveMatchAndLabel ==
    LET sd == targets[ti]
        D == sd.drive_name
        names == IF D = "Shared Documents" THEN {D, "Documents"} ELSE {D}
        Named(d) == d \in names
        expected == SelectSeq(DrivesOf(sd.url), Named)
    IN  /\ (pc = "drive" /\ DriveNameGiven(sd)) => (drives = expected /\ drives # <<>>)
        /\ (call.op = "drives" /\ call.failure = NoError /\ pc = "items"
              /\ DriveNameGiven(sd))
              => (expected = <<>> /\ driveitems = <<>> /\ error = NoError)
        /\ \A i \in 1..Len(driveitems) :
              driveitems[i].drive_name =
                 IF DriveOfItem(driveitems[i].item.id) = "Documents"
                 THEN "Shared Documents"
                 ELSE DriveOfItem(driveitems[i].item.id)

C12_Witness ==
    /\ pc = "items"
    /\ targets[ti].drive_name = "Shared Documents"
    /\ Len(driveitems) = 2
    /\ driveitems[1].item.id = "a1"
    /\ driveitems[1].drive_name = "Shared Documents"

----------------------------------------------------------------------------
(* C13: with an empty scope the enumerator yields every site of every page  *)
(* once, in page order, and goes on while a page has a next one, also after *)
(* a page with no sites.  Stated on the state once the enumeration is over  *)
(* without a failed call: no page is left unfetched, and the targets are    *)
(* the sites of the pages, in order.                                        *)
C13_EnumerationOver ==
    /\ site_descriptors = <<>>
    /\ pc \notin {"idle", "created", "start", "sites"}
    /\ error # ConnectorMissingCredentialError
    /\ ~(call.op \in {"get_all_sites", "_get_next"} /\ call.failure # NoError)

C13_EveryPageEnumerated ==
    C13_EnumerationOver =>
        (sites.rest = <<>> /\ targets = PageDescriptors(sites.data))

----------------------------------------------------------------------------
(* C14: with an empty scope, when the answer to get_all_sites holds no      *)
(* site, the run ends with the zero-sites error: it was the only remote     *)
(* call, made once, and no batch was yielded.                               *)
C14_ZeroSitesFatal ==
    /\ (call.op = "get_all_sites" /\ call.failure = NoError /\ sites.data = <<>>)
          => (pc = "raised" /\ error = NoSitesError)
    /\ error = NoSitesError
          => /\ yielded = <<>>
             /\ converted = <<>>
             /\ call.op = "get_all_sites"
             /\ call.attempt = 0
             /\ call.tick = 1

C14_Witness ==
    /\ pc = "raised"
    /\ error = NoSitesError
    /\ site_descriptors = <<>>
    /\ sites.rest = <<>>

----------------------------------------------------------------------------
(* C16: for a target with folder path F, a listed item is retained exactly  *)
(* when its parent path is F or begins with F + "/".  Stated on the state   *)
(* after the listing of a drive succeeded: the listed items (inside the     *)
(* window, if any) that are among the target's items are those whose        *)
(* parent path has the segments of F as a prefix.                           *)
C16_FolderFilterByPrefix ==
    (pc = "drive" /\ dri > 1 /\ call.op = "get_files" /\ call.failure = NoError
        /\ FolderPathGiven(targets[ti]))
    => LET sd == targets[ti]
           listed == ListFiles(sd.url, drives[dri - 1], sd)
           inWindow(it) == window.set => InWindow(it, window)
       IN  \A i \in 1..Len(listed) :
              inWindow(listed[i]) =>
                 ((\E j \in 1..Len(driveitems) : driveitems[j].item = listed[i])
                    <=> IsPrefix(sd.folder_path, listed[i].parent))

----------------------------------------------------------------------------
(* C17: a drive whose processing fails adds no item and raises no error,    *)
(* and the next drive of the target is processed: the traverser returns     *)
(* only after the last surviving drive.                                     *)
C17_DriveFailureSkipsDrive ==
    /\ []((call.op = "get_files" /\ call.failure # NoError)
             => (pc # "raised" /\ error = NoError))
    /\ [][(pc = "drive" /\ call' # call /\ call'.failure # NoError)
             => (pc' = "drive" /\ dri' = dri + 1 /\ driveitems' = driveitems)]_vars
    /\ [][(pc = "drive" /\ pc' # "drive") => (pc' = "items" /\ dri > Len(drives))]_vars

C17_Witness ==
    /\ pc = "items"
    /\ window = NoWindow
    /\ targets[ti] = SiteDescriptor("A", None, <<>>)
    /\ call.op = "get_files"
    /\ call.failure = NoError
    /\ Len(driveitems) = 2
    /\ driveitems[1].item.id = "a3"
    /\ driveitems[2].item.id = "a4"

----------------------------------------------------------------------------
(* C18: a skipped item (size above the threshold, or no content) changes    *)
(* neither the output nor the error and the item loop goes on; any other    *)
(* finished item adds one document carrying the item's id to the buffer;    *)
(* a completed run has yielded exactly these documents, in order.           *)
C18_ItemFinished ==
    /\ pc \in {"items", "fetch"}
    /\ ti' = ti
    /\ di' = di + 1

C18_SkipsNeverAbort ==
    /\ [](Completed => Flatten(yielded) = converted)
    /\ [][C18_ItemFinished =>
            IF converted' = converted
            THEN /\ pc' = "items"
                 /\ error' = NoError
                 /\ yielded' = yielded
                 /\ doc_batch' = doc_batch
            ELSE /\ Len(converted') = Len(converted) + 1
                 /\ SubSeq(converted', 1, Len(converted)) = converted
                 /\ converted'[Len(converted')].id = driveitems[di].item.id
                 /\ doc_batch' = Append(doc_batch, converted'[Len(converted')])
                 /\ error' = NoError]_vars

C18_Witness ==
    /\ pc = "done"
    /\ window = NoWindow
    /\ targets = << SiteDescriptor("A", None, <<>>) >>
    /\ call.op = "get_content"
    /\ call.about = "a2"
    /\ Len(converted) = 1
    /\ converted[1].id = "a2"
    /\ yielded = << converted >>

----------------------------------------------------------------------------
(* C19: remote calls are issued only while the caller waits for a batch:    *)
(* none before the first pull, none while the generator is suspended at a   *)
(* yield or is over; a batch is delivered only by suspending, and only a    *)
(* pull, which issues no call, leaves a suspension.                         *)
C19_Suspended == pc \in {"idle", "created", "yielded", "yielded_final", "done", "raised"}

C19_CallsOnlyWhenPulled ==
    /\ [][call' # call => ~C19_Suspended]_vars
    /\ [][yielded' # yielded => (pc' \in {"yielded", "yielded_final"}
                                   /\ Len(yielded') = Len(yielded) + 1)]_vars
    /\ [][(C19_Suspended /\ pc' # pc) => (call' = call /\ yielded' = yielded)]_vars

C19_Witness ==
    /\ pc = "yielded"
    /\ Len(yielded) = 1
    /\ di <= Len(driveitems)
    /\ call.op = "get_content"

----------------------------------------------------------------------------
----------------------------------------------------------------------------
(* Vocabulary of C15: what the claim makes of one string, given the string *)
(* the segments are taken of                                                *)
C15_HasSites(str) == \E i \in 1..Len(Split(str)) : Split(str)[i] = << "sites" >>

C15_Target(str) ==
    LET segs == Split(str)
        n == Len(segs)
        k == CHOOSE i \in 1..n :
                 segs[i] = << "sites" >> /\ \A j \in 1..(i - 1) : segs[j] # << "sites" >>
    IN  [url |-> Join(SubSeq(segs, 1, Min(k + 1, n))),
         drive_name |-> IF n >= k + 2 THEN Given(Unquote(segs[k + 2])) ELSE Absent,
         folder_path |-> IF n >= k + 3
                         THEN Given(Join([j \in 1..(n - k - 2) |-> Unquote(segs[k + 2 + j])]))
                         ELSE Absent]

RECURSIVE C15_Targets(_)
C15_Targets(strs) ==
    IF strs = <<>> THEN <<>>
    ELSE (IF C15_HasSites(Head(strs)) THEN << C15_Target(Head(strs)) >> ELSE <<>>)
         \o C15_Targets(Tail(strs))

C15_Processed == SubSeq(site_urls, 1, url_i - 1)

(* C15: the targets resolved so far are, in the order of the strings, one   *)
(* target for each string that has a segment literally equal to "sites"     *)
(* (root url up to the segment after it, decoded drive name, decoded        *)
(* folder path), and none for the other strings.                            *)
C15_ScopeResolver ==
    site_data_list = C15_Targets(C15_Processed)

(* C15, as amended: the same, the segments being those of the string        *)
(* without its leading and trailing white space.                            *)
C15_ScopeResolverStripped ==
    site_data_list =
        C15_Targets([i \in 1..Len(C15_Processed) |-> Strip(C15_Processed[i])])

C15_Witness ==
    /\ Len(site_urls) = 2
    /\ url_i = 3
    /\ site_urls[1] = << " ", "A", "/", "sites", "/", "A", "/", "b", "%20", "c", "/", "A" >>
    /\ site_urls[2] = << "A", "/", "A" >>
    /\ site_data_list =
          << SiteDescriptor(<< "A", "/", "sites", "/", "A" >>,
                            Given(<< "b", " ", "c" >>), Given(<< "A" >>)) >>

----------------------------------------------------------------------------
(* Vocabulary of C21: the place of an item in the order of the run, target  *)
(* by target, drive by drive as the site lists them, item by item as the    *)
(* drive lists them                                                         *)
RECURSIVE C21_IdsOfDrives(_, _)
C21_IdsOfDrives(url, ds) ==
    IF ds = <<>> THEN <<>>
    ELSE [i \in 1..Len(ItemsOf(url, Head(ds))) |-> ItemsOf(url, Head(ds))[i].id]
         \o C21_IdsOfDrives(url, Tail(ds))

RECURSIVE C21_IdsOfTargets(_)
C21_IdsOfTargets(ts) ==
    IF ts = <<>> THEN <<>>
    ELSE C21_IdsOfDrives(Head(ts).url, DrivesOf(Head(ts).url))
         \o C21_IdsOfTargets(Tail(ts))

C21_InOrder(ids) ==
    LET order == C21_IdsOfTargets(targets)
        place == [p \in 1..Len(ids) |->
                     CHOOSE n \in 1..Len(order) : order[n] = ids[p]]
    IN  \A p, q \in 1..Len(ids) : p < q => place[p] < place[q]

(* C21: of any two yielded documents, the one of the earlier target, or of  *)
(* the earlier drive of the same target, or listed earlier in the same      *)
(* drive, is yielded first; the items a target retains after the filters    *)
(* keep that order too.                                                     *)
C21_OutputOrder ==
    /\ C21_InOrder([i \in 1..Len(Flatten(yielded)) |-> Flatten(yielded)[i].id])
    /\ C21_InOrder([i \in 1..Len(driveitems) |-> driveitems[i].item.id])

C21_Witness ==
    /\ pc = "done"
    /\ [i \in 1..Len(Flatten(yielded)) |-> Flatten(yielded)[i].id]
          = << "b1", "b2", "a1", "a2", "a4" >>

----------------------------------------------------------------------------
(* C22: when the run has ended with an error, the batches delivered are     *)
(* full ones and hold the first k * batch_size converted documents, the     *)
(* later ones (fewer than batch_size) are in the buffer, and nothing is     *)
(* delivered afterwards.                                                    *)
C22_AbortKeepsBuffer ==
    /\ [](pc = "raised" =>
            /\ \A b \in 1..Len(yielded) : Len(yielded[b]) = batch_size
            /\ Len(Flatten(yielded)) <= Len(converted)
            /\ Flatten(yielded) = SubSeq(converted, 1, Len(yielded) * batch_size)
            /\ doc_batch = SubSeq(converted, Len(yielded) * batch_size + 1, Len(converted))
            /\ Len(doc_batch) < batch_size)
    /\ [][(pc = "raised") => (yielded' = yielded /\ doc_batch' = doc_batch)]_vars

C22_Witness ==
    /\ pc = "raised"
    /\ batch_size = 2
    /\ call.op = "get_content"
    /\ call.about = "a2"
    /\ call.failure # NoError
    /\ Len(yielded) = 1
    /\ Len(converted) = 3
    /\ Len(doc_batch) = 1
    /\ doc_batch[1].id = "a1"

====
